---- MODULE Spec2Model ----
(***************************************************************************)
(* Model of surfacing_gcodev3.py: the unit conversion, the depth planner   *)
(* (_depth_levels), the pass planner and the serpentine emitter of         *)
(* generate_surfacing_gcode.                                               *)
(*                                                                         *)
(* Python floats are IEEE binary floating point numbers.  The model keeps  *)
(* their semantics (every operation returns the exact result rounded to    *)
(* the nearest representable value, ties to even) and shrinks only the     *)
(* significand from 53 bits to Prec bits.  A float is a record [m, e]      *)
(* denoting m * 2^e, with m = 0 (and e = 0) or 2^(Prec-1) <= |m| < 2^Prec. *)
(* The exponent is unbounded, as no value of the program comes near the    *)
(* overflow or underflow thresholds of a double.                           *)
(***************************************************************************)
EXTENDS Integers, Sequences, FiniteSets, TLC

\* ---------------------------------------------------------------- bounds
Prec == 5          \* bits of significand of the modelled floats
MaxExp == 1        \* the geometry inputs have exponents in -MaxExp..MaxExp
MaxLevels == 6     \* inputs are kept to ceil(a / b) <= MaxLevels

\* ------------------------------------------------- floating point numbers
RECURSIVE Pow2(_)
Pow2(n) == IF n <= 0 THEN 1 ELSE 2 * Pow2(n - 1)

Abs(n) == IF n < 0 THEN -n ELSE n
Sgn(n) == IF n < 0 THEN -1 ELSE IF n = 0 THEN 0 ELSE 1
Min2(a, b) == IF a < b THEN a ELSE b

Zero == [m |-> 0, e |-> 0]

\* a / b (a >= 0, b > 0) rounded to the nearest integer, ties to even
RoundHalfEven(a, b) ==
    LET q == a \div b
        r == a % b
    IN  IF 2 * r < b THEN q
        ELSE IF 2 * r > b THEN q + 1
        ELSE q + (q % 2)

\* the positive rational (a / b) * 2^e rounded to Prec significant bits
RECURSIVE RoundRat(_, _, _)
RoundRat(a, b, e) ==
    IF a >= b * Pow2(Prec) THEN RoundRat(a, 2 * b, e + 1)
    ELSE IF a < b * Pow2(Prec - 1) THEN RoundRat(2 * a, b, e - 1)
    ELSE LET m == RoundHalfEven(a, b)
         IN  IF m = Pow2(Prec) THEN [m |-> Pow2(Prec - 1), e |-> e + 1]
             ELSE [m |-> m, e |-> e]

\* the rational (n / d) * 2^e, n of either sign, as a float
Float(n, d, e) ==
    IF n = 0 THEN Zero
    ELSE LET r == RoundRat(Abs(n), d, e)
         IN  [m |-> Sgn(n) * r.m, e |-> r.e]

FNeg(x) == [m |-> -x.m, e |-> x.e]

\* x < y, exactly
FLess(x, y) ==
    IF x.m = 0 THEN y.m > 0
    ELSE IF y.m = 0 THEN x.m < 0
    ELSE IF Sgn(x.m) # Sgn(y.m) THEN x.m < y.m
    ELSE IF x.m > 0
         THEN x.e < y.e \/ (x.e = y.e /\ x.m < y.m)
         ELSE x.e > y.e \/ (x.e = y.e /\ x.m < y.m)

FLeq(x, y) == x = y \/ FLess(x, y)
FMin(x, y) == IF FLess(y, x) THEN y ELSE x
FAbs(x) == [m |-> Abs(x.m), e |-> x.e]

\* x - y: the exact difference, rounded.  An operand more than Prec + 2
\* binary orders below the other one is smaller than a quarter of the
\* other's spacing and is absorbed by the rounding.
FSub(x, y) ==
    IF y.m = 0 THEN x
    ELSE IF x.m = 0 THEN FNeg(y)
    ELSE IF x.e - y.e > Prec + 2 THEN x
    ELSE IF y.e - x.e > Prec + 2 THEN FNeg(y)
    ELSE LET lo == Min2(x.e, y.e)
         IN  Float(x.m * Pow2(x.e - lo) - y.m * Pow2(y.e - lo), 1, lo)

FMul(x, y) == Float(x.m * y.m, 1, x.e + y.e)

\* x / y, y # 0
FDiv(x, y) == Float(Sgn(y.m) * x.m, Abs(y.m), x.e - y.e)

\* float(i) for an integer i
FromInt(i) == Float(i, 1, 0)

\* math.ceil of a float x >= 0, as an integer
Ceil(x) ==
    IF x.m = 0 THEN 0
    ELSE IF x.e >= 0 THEN x.m * Pow2(x.e)
    ELSE IF -x.e >= Prec THEN 1
    ELSE (x.m + Pow2(-x.e) - 1) \div Pow2(-x.e)

\* the literal 25.4 of _geom_to_mm and _rate_to_mm_min
InchFactor == Float(254, 10, 0)

\* the literal 1e-9 (abs_tol of isclose, the guard on dy):
\* 1e-9 = (2^21 / 5^9) * 2^-30
Tol == Float(2097152, 1953125, -30)

\* math.isclose(a, b, rel_tol=0.0, abs_tol=1e-9): a == b, or the rounded
\* difference is at most abs_tol
IsClose(a, b) == a = b \/ FLeq(FAbs(FSub(b, a)), Tol)

\* ceil(a / b) of the exact quotient of two positive floats
CeilRatio(a, b) ==
    LET d == a.e - b.e
        n == IF d >= 0 THEN a.m * Pow2(d) ELSE a.m
        k == IF d >= 0 THEN b.m ELSE b.m * Pow2(-d)
    IN  (n + k - 1) \div k

\* ------------------------------------------------------------------ state
VARIABLES
    entry,            \* the function under execution was entered from here
    pc,               \* position in the code
    params,           \* the arguments of generate_surfacing_gcode
    width_mm, length_mm, final_depth_mm, max_stepdown_mm, stepover_mm,
    feed_mm_min, plunge_mm_min,
    z,                \* _depth_levels: the level reached so far
    depths,           \* the list of depth levels
    ys,               \* the list of pass offsets
    out,              \* the list of emitted lines
    di,               \* index of the depth of the for loop over depths
    i,                \* index of the pass of the for loop over ys
    direction,        \* +1 = X increasing, -1 = X decreasing
    err,              \* the ValueError raised, if any
    ret               \* the value returned by generate_surfacing_gcode

vars == <<entry, pc, params, width_mm, length_mm, final_depth_mm,
          max_stepdown_mm, stepover_mm, feed_mm_min, plunge_mm_min,
          z, depths, ys, out, di, i, direction, err, ret>>

NoParams == [unit |-> "none"]
NoProgram == <<>>

\* the floats m * 2^e with a full significand and lo <= e <= hi
PosFloats(lo, hi) ==
    {[m |-> m, e |-> e] : m \in Pow2(Prec - 1) .. (Pow2(Prec) - 1), e \in lo .. hi}

\* ------------------------------------------------- _depth_levels (72-92)
\* where the caller of _depth_levels continues (line 139)
AfterDepths == IF entry = "generate_surfacing_gcode" THEN "plan_passes" ELSE "returned"

\* line 86-87 without the clamp to the target
NextZUnclamped(zz, step, target) == FSub(zz, step)

\* lines 85-87: the next level, clamped to the target
NextZ(zz, step, target) ==
    LET next_z == FSub(zz, step)
    IN  IF FLess(next_z, target) THEN target ELSE next_z

\* lines 74-83: the argument checks and the initialisation
DepthEnter ==
    /\ pc = "depth_levels"
    /\ IF FLeq(final_depth_mm, Zero)
       THEN pc' = "raised" /\ err' = "final_depth must be > 0" /\ UNCHANGED <<z, depths>>
       ELSE IF FLeq(max_stepdown_mm, Zero)
       THEN pc' = "raised" /\ err' = "max_stepdown must be > 0" /\ UNCHANGED <<z, depths>>
       ELSE pc' = "depth_loop" /\ z' = Zero /\ depths' = <<>> /\ UNCHANGED err
    /\ UNCHANGED <<entry, params, width_mm, length_mm, final_depth_mm,
                   max_stepdown_mm, stepover_mm, feed_mm_min, plunge_mm_min,
                   ys, out, di, i, direction, ret>>

\* lines 84-92: the test of the while loop, one iteration with its break,
\* and the return of the list
DepthLoop ==
    /\ pc = "depth_loop"
    /\ Len(depths) <= MaxLevels + 1
    /\ LET target == FNeg(final_depth_mm)
           next_z == NextZ(z, max_stepdown_mm, target)
       IN  IF FLess(target, z)
           THEN /\ depths' = Append(depths, next_z)
                /\ z' = next_z
                /\ pc' = IF IsClose(next_z, target) THEN AfterDepths ELSE "depth_loop"
           ELSE /\ pc' = AfterDepths
                /\ UNCHANGED <<z, depths>>
    /\ UNCHANGED <<entry, params, width_mm, length_mm, final_depth_mm,
                   max_stepdown_mm, stepover_mm, feed_mm_min, plunge_mm_min,
                   ys, out, di, i, direction, err, ret>>

\* the arguments _depth_levels is applied to: floats of ordinary size, floats
\* of the size of the tolerance 1e-9, zero and a negative value
DepthValues ==
    PosFloats(-MaxExp, MaxExp) \cup PosFloats(Tol.e - 1, Tol.e + 1)
        \cup {Zero, [m |-> -Pow2(Prec - 1), e |-> 0]}

DepthPairOk(f, s) ==
    (f.m > 0 /\ s.m > 0) => (Abs(f.e - s.e) <= Prec /\ CeilRatio(f, s) <= MaxLevels)

InitDepth ==
    /\ entry = "_depth_levels"
    /\ pc = "depth_levels"
    /\ params = NoParams
    /\ final_depth_mm \in DepthValues
    /\ max_stepdown_mm \in DepthValues
    /\ DepthPairOk(final_depth_mm, max_stepdown_mm)
    /\ width_mm = Zero /\ length_mm = Zero /\ stepover_mm = Zero
    /\ feed_mm_min = Zero /\ plunge_mm_min = Zero
    /\ z = Zero /\ depths = <<>> /\ ys = <<>> /\ out = <<>>
    /\ di = 0 /\ i = 0 /\ direction = 1
    /\ err = "" /\ ret = NoProgram

NextDepth == DepthEnter \/ DepthLoop

SpecDepth == InitDepth /\ [][NextDepth]_vars

\* --------------------------------------------- the pass planner (141-143)
\* where generate_surfacing_gcode continues after the pass planning
AfterPasses == IF entry = "generate_surfacing_gcode" THEN "header" ELSE "returned"

\* line 142: int(ceil(width_mm / stepover_mm)) + 1
NPasses(w, s) == Ceil(FDiv(w, s)) + 1

\* line 143: i * stepover_mm, the product of an int and a float
IntTimes(k, s) == Float(k * s.m, 1, s.e)

\* line 143: min(i * stepover_mm, width_mm)
PassY(k, s, w) == FMin(IntTimes(k, s), w)

\* lines 142-143
PlanPasses ==
    /\ pc = "plan_passes"
    /\ ys' = [k \in 1 .. NPasses(width_mm, stepover_mm) |->
                 PassY(k - 1, stepover_mm, width_mm)]
    /\ pc' = AfterPasses
    /\ UNCHANGED <<entry, params, width_mm, length_mm, final_depth_mm,
                   max_stepdown_mm, stepover_mm, feed_mm_min, plunge_mm_min,
                   z, depths, out, di, i, direction, err, ret>>

PassValues == PosFloats(-MaxExp, MaxExp)

InitPass ==
    /\ entry = "plan_passes"
    /\ pc = "plan_passes"
    /\ params = NoParams
    /\ width_mm \in PassValues
    /\ stepover_mm \in PassValues
    /\ DepthPairOk(width_mm, stepover_mm)
    /\ final_depth_mm = Zero /\ max_stepdown_mm = Zero /\ length_mm = Zero
    /\ feed_mm_min = Zero /\ plunge_mm_min = Zero
    /\ z = Zero /\ depths = <<>> /\ ys = <<>> /\ out = <<>>
    /\ di = 0 /\ i = 0 /\ direction = 1
    /\ err = "" /\ ret = NoProgram

NextPass == PlanPasses

SpecPass == InitPass /\ [][NextPass]_vars

\* ------------------------------------- unit conversion (56-69) and output
GeomUnits == {"mm", "inch", "in", "cm"}
RateUnits == {"mm/min", "in/min", "inch/min", "mm/s"}

\* lines 56-61; "unsupported" stands for the ValueError
GeomSupported(unit) == unit \in {"mm", "inch", "in"}
_geom_to_mm(v, unit) == IF unit = "mm" THEN v ELSE FMul(v, InchFactor)

\* lines 64-69
RateSupported(unit) == unit \in {"mm/min", "in/min", "inch/min"}
_rate_to_mm_min(v, unit) == IF unit = "mm/min" THEN v ELSE FMul(v, InchFactor)

\* f"{x:.3f}", f"{x:.1f}", f"{x:.0f}": x rounded to a multiple of 1/scale
\* (scale = 1000, 10, 1), ties to even, as the count of such units
Fmt(x, scale) ==
    IF x.m = 0 THEN 0
    ELSE IF x.e >= 0 THEN x.m * scale * Pow2(x.e)
    ELSE IF -x.e > 20 THEN 0
    ELSE Sgn(x.m) * RoundHalfEven(Abs(x.m) * scale, Pow2(-x.e))

Fmt3(x) == Fmt(x, 1000)
Fmt1(x) == Fmt(x, 10)
Fmt0(x) == Fmt(x, 1)

\* a line of the program: its command and the words it carries; NoWord
\* marks a word the line does not have
NoWord == 2000000000
Line(cmd) == [cmd |-> cmd, X |-> NoWord, Y |-> NoWord, Z |-> NoWord,
              I |-> NoWord, J |-> NoWord, F |-> NoWord, S |-> NoWord]
Blank == Line("")

\* ------------------------------------ generate_surfacing_gcode (95-205)
\* lines 119-124
ConvertGeometry ==
    /\ pc = "generate"
    /\ IF ~ GeomSupported(params.unit)
       THEN /\ pc' = "raised" /\ err' = "Unsupported geometry unit"
            /\ UNCHANGED <<width_mm, length_mm, final_depth_mm, max_stepdown_mm, stepover_mm>>
       ELSE /\ width_mm' = _geom_to_mm(params.width, params.unit)
            /\ length_mm' = _geom_to_mm(params.length, params.unit)
            /\ final_depth_mm' = _geom_to_mm(params.final_depth, params.unit)
            /\ max_stepdown_mm' = _geom_to_mm(params.max_stepdown, params.unit)
            /\ stepover_mm' = _geom_to_mm(params.stepover, params.unit)
            /\ pc' = "check_geometry" /\ UNCHANGED err
    /\ UNCHANGED <<entry, params, feed_mm_min, plunge_mm_min,
                   z, depths, ys, out, di, i, direction, ret>>

\* lines 130-131 left out: the retract height is not checked
GeometryErrorNoRetract(w, l, s, r) ==
    IF FLeq(w, Zero) \/ FLeq(l, Zero) THEN "width and length must be > 0"
    ELSE IF FLeq(s, Zero) THEN "stepover must be > 0"
    ELSE ""

\* lines 126-131: the message of the ValueError raised, "" if none
GeometryError(w, l, s, r) ==
    IF FLeq(w, Zero) \/ FLeq(l, Zero) THEN "width and length must be > 0"
    ELSE IF FLeq(s, Zero) THEN "stepover must be > 0"
    ELSE IF FLeq(r, Zero) THEN "retract_z_mm must be > 0"
    ELSE ""

\* lines 126-131
CheckGeometry ==
    /\ pc = "check_geometry"
    /\ LET e == GeometryError(width_mm, length_mm, stepover_mm, params.retract_z_mm)
       IN  IF e # "" THEN pc' = "raised" /\ err' = e
           ELSE pc' = "convert_rates" /\ UNCHANGED err
    /\ UNCHANGED <<entry, params, width_mm, length_mm, final_depth_mm,
                   max_stepdown_mm, stepover_mm, feed_mm_min, plunge_mm_min,
                   z, depths, ys, out, di, i, direction, ret>>

\* lines 133-137, then the call of line 139
ConvertRates ==
    /\ pc = "convert_rates"
    /\ IF ~ RateSupported(params.rate_unit)
       THEN /\ pc' = "raised" /\ err' = "Unsupported rate unit"
            /\ UNCHANGED <<feed_mm_min, plunge_mm_min>>
       ELSE /\ feed_mm_min' = _rate_to_mm_min(params.feed_rate, params.rate_unit)
            /\ plunge_mm_min' = _rate_to_mm_min(params.plunge_rate, params.rate_unit)
            /\ IF FLeq(feed_mm_min', Zero) \/ FLeq(plunge_mm_min', Zero)
               THEN pc' = "raised" /\ err' = "feed_rate and plunge_rate must be > 0"
               ELSE pc' = "depth_levels" /\ UNCHANGED err
    /\ UNCHANGED <<entry, params, width_mm, length_mm, final_depth_mm,
                   max_stepdown_mm, stepover_mm,
                   z, depths, ys, out, di, i, direction, ret>>

SpindleOn == params.spindle_speed_rpm.m > 0

\* lines 145-160: the header, the initial safe move and the spindle start
EmitHeader ==
    /\ pc = "header"
    /\ out' = <<Line("(program_name)"), Line("G90"), Line("G21"), Line("G17"),
                Line("work_offset"), Line("G64"), Blank,
                [Line("G0") EXCEPT !.Z = Fmt3(params.retract_z_mm)]>>
              \o (IF SpindleOn
                  THEN <<[Line("M3") EXCEPT !.S = Fmt0(params.spindle_speed_rpm)]>>
                  ELSE <<>>)
              \o <<Blank>>
    /\ di' = 1
    /\ pc' = "for_depth"
    /\ UNCHANGED <<entry, params, width_mm, length_mm, final_depth_mm,
                   max_stepdown_mm, stepover_mm, feed_mm_min, plunge_mm_min,
                   z, depths, ys, i, direction, err, ret>>

\* lines 162-168: the next depth of the for loop, or the end of the loop
BeginDepth ==
    /\ pc = "for_depth"
    /\ IF di <= Len(depths)
       THEN /\ out' = out \o
                <<[Line("(Depth)") EXCEPT !.Z = Fmt3(depths[di])],
                  [Line("G0") EXCEPT !.X = 0, !.Y = 0],
                  [Line("G0") EXCEPT !.Z = Fmt3(params.retract_z_mm)],
                  [Line("G1") EXCEPT !.Z = Fmt3(depths[di]), !.F = Fmt1(plunge_mm_min)]>>
            /\ direction' = 1
            /\ i' = 1
            /\ pc' = "for_pass"
       ELSE /\ pc' = "footer"
            /\ UNCHANGED <<out, direction, i>>
    /\ UNCHANGED <<entry, params, width_mm, length_mm, final_depth_mm,
                   max_stepdown_mm, stepover_mm, feed_mm_min, plunge_mm_min,
                   z, depths, ys, di, err, ret>>

\* lines 172-175 without the F word
SweepNoFeed(dir, len_mm, feed) ==
    IF dir = 1 THEN [Line("G1") EXCEPT !.X = Fmt3(len_mm)]
    ELSE [Line("G1") EXCEPT !.X = 0]

\* lines 172-175: the sweep of one pass
Sweep(dir, len_mm, feed) ==
    IF dir = 1 THEN [Line("G1") EXCEPT !.X = Fmt3(len_mm), !.F = Fmt1(feed)]
    ELSE [Line("G1") EXCEPT !.X = 0, !.F = Fmt1(feed)]

\* lines 170-175
CutPass ==
    /\ pc = "for_pass"
    /\ out' = Append(out, Sweep(direction, length_mm, feed_mm_min))
    /\ pc' = "uturn"
    /\ UNCHANGED <<entry, params, width_mm, length_mm, final_depth_mm,
                   max_stepdown_mm, stepover_mm, feed_mm_min, plunge_mm_min,
                   z, depths, ys, di, i, direction, err, ret>>

\* lines 187-190 with the two arc commands exchanged
ArcSwapped(dir, len_mm, y_next, r_local) ==
    IF dir = 1
    THEN [Line("G2") EXCEPT !.X = Fmt3(len_mm), !.Y = Fmt3(y_next), !.I = 0, !.J = Fmt3(r_local)]
    ELSE [Line("G3") EXCEPT !.X = 0, !.Y = Fmt3(y_next), !.I = 0, !.J = Fmt3(r_local)]

\* lines 187-190: the U-turn arc
Arc(dir, len_mm, y_next, r_local) ==
    IF dir = 1
    THEN [Line("G3") EXCEPT !.X = Fmt3(len_mm), !.Y = Fmt3(y_next), !.I = 0, !.J = Fmt3(r_local)]
    ELSE [Line("G2") EXCEPT !.X = 0, !.Y = Fmt3(y_next), !.I = 0, !.J = Fmt3(r_local)]

\* line 181 without the guard: no interval is degenerate
DegenerateNever(dy) == FALSE

\* line 181: dy <= 1e-9
Degenerate(dy) == FLeq(dy, Tol)

\* line 192 without the flip
FlipNot(dir) == dir

\* line 192: direction *= -1
Flip(dir) == -dir

\* lines 177-192: the U-turn to the next pass, the break on a degenerate
\* interval, and the end of the for loop over ys
UTurn ==
    /\ pc = "uturn"
    /\ IF i < Len(ys)
       THEN LET y_next  == ys[i + 1]
                dy      == FSub(y_next, ys[i])
                r_local == FDiv(dy, FromInt(2))
            IN  IF Degenerate(dy)
                THEN /\ pc' = "end_depth"
                     /\ UNCHANGED <<out, direction, i>>
                ELSE /\ out' = Append(out, Arc(direction, length_mm, y_next, r_local))
                     /\ direction' = Flip(direction)
                     /\ i' = i + 1
                     /\ pc' = "for_pass"
       ELSE /\ pc' = "end_depth"
            /\ UNCHANGED <<out, direction, i>>
    /\ UNCHANGED <<entry, params, width_mm, length_mm, final_depth_mm,
                   max_stepdown_mm, stepover_mm, feed_mm_min, plunge_mm_min,
                   z, depths, ys, di, err, ret>>

\* line 195 alone: the retract of line 194 is missing
DepthEpilogueNoRetract(retract) == <<Blank>>

\* lines 194-195: the retract that ends a depth block
DepthEpilogue(retract) == <<[Line("G0") EXCEPT !.Z = Fmt3(retract)], Blank>>

\* lines 194-195
EndDepth ==
    /\ pc = "end_depth"
    /\ out' = out \o DepthEpilogue(params.retract_z_mm)
    /\ di' = di + 1
    /\ pc' = "for_depth"
    /\ UNCHANGED <<entry, params, width_mm, length_mm, final_depth_mm,
                   max_stepdown_mm, stepover_mm, feed_mm_min, plunge_mm_min,
                   z, depths, ys, i, direction, err, ret>>

\* lines 200-201 with the spindle stop emitted unconditionally
SpindleOffAlways == <<Line("M5")>>

\* lines 200-201
SpindleOff == IF SpindleOn THEN <<Line("M5")>> ELSE <<>>

\* lines 197-205: the footer and the return of the joined lines
EmitFooter ==
    /\ pc = "footer"
    /\ out' = out \o <<[Line("G0") EXCEPT !.Z = Fmt3(params.retract_z_mm)]>>
                  \o SpindleOff \o <<Line("M30"), Blank>>
    /\ ret' = out'
    /\ pc' = "done"
    /\ UNCHANGED <<entry, params, width_mm, length_mm, final_depth_mm,
                   max_stepdown_mm, stepover_mm, feed_mm_min, plunge_mm_min,
                   z, depths, ys, di, i, direction, err>>

\* ------------------------------------------------------- the arguments
\* the float (2^(Prec-1) + k) * 2^e
Fl(k, e) == [m |-> Pow2(Prec - 1) + k, e |-> e]
Neg1 == FNeg(Fl(0, 0))

WidthValues     == {Zero, Fl(4, 1), Fl(2, 0), Fl(5, Tol.e + 1)}
StepoverValues  == {Neg1, Fl(10, -1), Fl(0, -1), Fl(0, Tol.e)}
LengthValues    == {Zero, Fl(3, 2)}
FinalValues     == {Zero, Fl(11, 1), Fl(1, -2)}
StepdownValues  == {Neg1, Fl(2, -1), Fl(1, -2)}
FeedValues      == {Zero, Fl(8, 2)}
PlungeValues    == {Neg1, Fl(0, 0)}
SpindleValues   == {Neg1, Zero, Fl(1, 8)}
RetractValues   == {Zero, Fl(4, -2)}

InitGenerate ==
    /\ entry = "generate_surfacing_gcode"
    /\ pc = "generate"
    /\ params \in [width : WidthValues, length : LengthValues,
                   final_depth : FinalValues, max_stepdown : StepdownValues,
                   stepover : StepoverValues, unit : GeomUnits,
                   feed_rate : FeedValues, plunge_rate : PlungeValues,
                   rate_unit : RateUnits, spindle_speed_rpm : SpindleValues,
                   retract_z_mm : RetractValues]
    /\ DepthPairOk(params.width, params.stepover)
    /\ DepthPairOk(params.final_depth, params.max_stepdown)
    /\ width_mm = Zero /\ length_mm = Zero /\ stepover_mm = Zero
    /\ final_depth_mm = Zero /\ max_stepdown_mm = Zero
    /\ feed_mm_min = Zero /\ plunge_mm_min = Zero
    /\ z = Zero /\ depths = <<>> /\ ys = <<>> /\ out = <<>>
    /\ di = 0 /\ i = 0 /\ direction = 1
    /\ err = "" /\ ret = NoProgram

Next ==
    \/ ConvertGeometry \/ CheckGeometry \/ ConvertRates
    \/ DepthEnter \/ DepthLoop \/ PlanPasses
    \/ EmitHeader \/ BeginDepth \/ CutPass \/ UTurn \/ EndDepth \/ EmitFooter

Spec == InitGenerate /\ [][Next]_vars

\* ------------------------------------------------------------ claims C1, C2
DepthsReturned == entry = "_depth_levels" /\ pc = "returned"
Last(s) == s[Len(s)]

\* C1: for positive final_depth_mm and max_stepdown_mm, _depth_levels returns
\* (it does not raise) a non-empty list whose last value is within 1e-9 of
\* -final_depth_mm and in which no value is below -final_depth_mm.  The
\* distance is measured as a test of the property measures it, by the
\* floating point value of abs(last + final_depth_mm).
C1_DepthExact ==
    /\ (pc = "raised" /\ entry = "_depth_levels") =>
            (final_depth_mm.m <= 0 \/ max_stepdown_mm.m <= 0)
    /\ DepthsReturned =>
        /\ Len(depths) >= 1
        /\ FLeq(FAbs(FSub(Last(depths), FNeg(final_depth_mm))), Tol)
        /\ \A k \in 1 .. Len(depths) : ~ FLess(depths[k], FNeg(final_depth_mm))

\* C1 witness: a returned list whose last step was clamped to the target
C1_Witness ==
    /\ DepthsReturned
    /\ Len(depths) >= 2
    /\ Last(depths) = FNeg(final_depth_mm)
    /\ FLess(FSub(depths[Len(depths) - 1], max_stepdown_mm), FNeg(final_depth_mm))

\* C2 (as claimed): the loop runs at most ceil(final_depth_mm /
\* max_stepdown_mm) times, the levels are strictly decreasing and the first
\* level is >= -max_stepdown_mm.
C2_StepBound ==
    (entry = "_depth_levels" /\ pc \in {"depth_loop", "returned"}) =>
        /\ Len(depths) <= CeilRatio(final_depth_mm, max_stepdown_mm)
        /\ \A k \in 1 .. Len(depths) - 1 : FLess(depths[k + 1], depths[k])
        /\ Len(depths) >= 1 => FLeq(FNeg(max_stepdown_mm), depths[1])

\* the bound on the length of depths in DepthLoop never stops the loop
CapNeverBinds == pc = "depth_loop" => Len(depths) <= MaxLevels + 1
\* ---------------------------------------------------------------- claim C3
PassesPlanned == entry = "plan_passes" /\ pc = "returned"

\* C3 (as claimed): the pass list has ceil(width_mm / stepover_mm) + 1
\* entries, starts at 0, never exceeds width_mm and ends at width_mm.
C3_PassesSpan ==
    PassesPlanned =>
        /\ Len(ys) = NPasses(width_mm, stepover_mm)
        /\ ys[1] = Zero
        /\ \A k \in 1 .. Len(ys) : FLeq(ys[k], width_mm)
        /\ Last(ys) = width_mm
\* ------------------------------------------- reading the emitted program
\* the indices of the lines of prog with command cmd
Idx(prog, cmd) == {k \in 1 .. Len(prog) : prog[k].cmd = cmd}

IsMotion(l) == l.cmd \in {"G0", "G1", "G2", "G3"}
IsFeedMove(l) == l.cmd \in {"G1", "G2", "G3"}
IsSweep(l) == l.cmd = "G1" /\ l.X # NoWord
IsArc(l) == l.cmd \in {"G2", "G3"}

\* the value of word w ("X", "Y", "Z" or "F") in force after line k: that of
\* the last motion line up to k that carries the word, NoWord if there is none
RECURSIVE LastWord(_, _, _)
LastWord(prog, k, w) ==
    IF k = 0 THEN NoWord
    ELSE IF IsMotion(prog[k]) /\ prog[k][w] # NoWord THEN prog[k][w]
    ELSE LastWord(prog, k - 1, w)

\* the modal state of the machine after line k: the tool position and the
\* feed rate
Track(prog, k) ==
    [x |-> LastWord(prog, k, "X"), y |-> LastWord(prog, k, "Y"),
     z |-> LastWord(prog, k, "Z"), f |-> LastWord(prog, k, "F")]

\* the depth block of line k: the index of the last depth comment at or
\* before k, 0 if there is none
BlockOf(prog, k) ==
    LET before == {b \in Idx(prog, "(Depth)") : b <= k}
    IN  IF before = {} THEN 0 ELSE CHOOSE b \in before : \A c \in before : c <= b

\* the lines of the block that starts at the depth comment b
BlockLines(prog, b) == {k \in 1 .. Len(prog) : BlockOf(prog, k) = b}

Done == entry = "generate_surfacing_gcode" /\ pc = "done"

\* ---------------------------------------------------------------- claim C4
\* C4 (as claimed): the program has one depth block per depth level and
\* every block has N sweeps and N - 1 arcs, N the number of planned passes.
C4_FullBlocks ==
    Done =>
        /\ Cardinality(Idx(ret, "(Depth)")) = Len(depths)
        /\ \A b \in Idx(ret, "(Depth)") :
            /\ Cardinality({k \in BlockLines(ret, b) : IsSweep(ret[k])}) = Len(ys)
            /\ Cardinality({k \in BlockLines(ret, b) : IsArc(ret[k])}) = Len(ys) - 1

\* the passes cut in every block: up to the first pass that is within 1e-9
\* of the next one
CutPasses ==
    LET stop == {k \in 1 .. Len(ys) :
                    k = Len(ys) \/ FLeq(FSub(ys[k + 1], ys[k]), Tol)}
    IN  CHOOSE k \in stop : \A j \in stop : k <= j

\* C4 (amended): the program has one depth block per depth level and every
\* block has K sweeps and K - 1 arcs, where K <= N is the index of the first
\* planned pass that lies within 1e-9 of its successor (K = N if none does).
C4_BlocksUpToGuard ==
    Done =>
        /\ Cardinality(Idx(ret, "(Depth)")) = Len(depths)
        /\ CutPasses >= 1 /\ CutPasses <= Len(ys)
        /\ \A b \in Idx(ret, "(Depth)") :
            /\ Cardinality({k \in BlockLines(ret, b) : IsSweep(ret[k])}) = CutPasses
            /\ Cardinality({k \in BlockLines(ret, b) : IsArc(ret[k])}) = CutPasses - 1

\* C4 witness: a program of several blocks that the guard has cut short
\* after more than one pass
C4_Witness ==
    /\ Done
    /\ Len(depths) >= 2
    /\ CutPasses >= 2 /\ CutPasses < Len(ys)
\* ---------------------------------------------------------------- claim C5
FirstOf(S) == CHOOSE k \in S : \A j \in S : k <= j

\* C5: M3 is emitted iff spindle_speed_rpm > 0 and M5 iff M3 was; M3 follows
\* the initial rapid to the retract height and precedes every cutting move,
\* M5 follows the final retract and precedes M30; M30 is emitted exactly once
\* and is the last command of the program.
C5_SpindleAndEnd ==
    Done =>
        LET n   == Len(ret)
            m3  == Idx(ret, "M3")
            m5  == Idx(ret, "M5")
            cut == {k \in 1 .. n : IsFeedMove(ret[k])}
        IN  /\ Cardinality(m3) = (IF params.spindle_speed_rpm.m > 0 THEN 1 ELSE 0)
            /\ Cardinality(m5) = Cardinality(m3)
            /\ \A k \in m3 :
                /\ ret[k - 1] = [Line("G0") EXCEPT !.Z = Fmt3(params.retract_z_mm)]
                /\ \A c \in cut : k < c
            /\ \A k \in m5 :
                /\ ret[k - 1] = [Line("G0") EXCEPT !.Z = Fmt3(params.retract_z_mm)]
                /\ ret[k + 1].cmd = "M30"
                /\ \A c \in cut : c < k
            /\ Idx(ret, "M30") = {n - 1}
            /\ ret[n] = Blank

\* C5 witness: a finished program with the spindle started and stopped
C5_Witness == Done /\ Idx(ret, "M3") # {} /\ Idx(ret, "M5") # {} /\ Len(depths) >= 2

\* ---------------------------------------------------------------- claim C6
InvalidArgs ==
    \/ ~ GeomSupported(params.unit)
    \/ ~ RateSupported(params.rate_unit)
    \/ params.width.m <= 0 \/ params.length.m <= 0 \/ params.stepover.m <= 0
    \/ params.final_depth.m <= 0 \/ params.max_stepdown.m <= 0
    \/ params.feed_rate.m <= 0 \/ params.plunge_rate.m <= 0
    \/ params.retract_z_mm.m <= 0

BeforeEmission ==
    pc \in {"generate", "check_geometry", "convert_rates", "depth_levels",
            "depth_loop", "plan_passes", "raised"}

\* C6: with an unsupported unit or a non-positive dimension, rate or retract
\* height the call raises and returns nothing; every check is made before
\* the first line is produced, so the call either fails with no output or
\* returns a complete program, from the header to M30.
C6_ValidationFirst ==
    entry = "generate_surfacing_gcode" =>
        /\ InvalidArgs => pc \in {"generate", "check_geometry", "convert_rates",
                                  "depth_levels", "raised"}
        /\ (InvalidArgs /\ pc # "raised") => ENABLED Next
        /\ BeforeEmission => (out = <<>> /\ ret = NoProgram)
        /\ pc = "raised" => (err # "" /\ InvalidArgs)
        /\ pc # "done" => ret = NoProgram
        /\ pc = "done" =>
            /\ ~ InvalidArgs /\ err = ""
            /\ ret = out
            /\ ret[1].cmd = "(program_name)"
            /\ ret[Len(ret) - 1].cmd = "M30"

\* C6 witness: the last of the checks, made inside _depth_levels, has raised
C6_Witness ==
    /\ entry = "generate_surfacing_gcode"
    /\ pc = "raised"
    /\ err = "max_stepdown must be > 0"
    /\ out = <<>> /\ ret = NoProgram

\* ---------------------------------------------------------------- claim C7
\* the sweep l runs toward +X: it ends at X = length_mm, not at X = 0 (the
\* lengths of LengthValues do not print as 0.000)
TowardPlusX(l) == l.X # 0

ArcEmitted == entry = "generate_surfacing_gcode" /\ pc = "for_pass" /\ i > 1

\* C7 (as claimed): the arc after a pass swept toward +X is clockwise (G2),
\* the arc after a pass swept toward -X is counter-clockwise (G3).
C7_ArcAsClaimed ==
    ArcEmitted =>
        Last(out).cmd = (IF TowardPlusX(out[Len(out) - 1]) THEN "G2" ELSE "G3")

\* C7 (amended): the arc after a pass swept toward +X is counter-clockwise
\* (G3), the arc after a pass swept toward -X is clockwise (G2).
C7_ArcWinding ==
    ArcEmitted =>
        /\ IsSweep(out[Len(out) - 1])
        /\ Last(out).cmd = (IF TowardPlusX(out[Len(out) - 1]) THEN "G3" ELSE "G2")

\* C7 witness: the second arc of a block, after a pass swept toward -X
C7_Witness == ArcEmitted /\ i = 3 /\ Last(out).cmd = "G2" /\ out[Len(out) - 1].X = 0

\* ---------------------------------------------------------------- claim C8
\* the direction of the pass of 1-based index k: +X for the 1st, 3rd, ...
ParityDir(k) == IF k % 2 = 1 THEN 1 ELSE -1
EdgeX(dir) == IF dir = 1 THEN Fmt3(length_mm) ELSE 0

\* C8: in every block pass i is cut at Y = ys[i] and runs toward +X iff its
\* 0-based index is even; the direction flag equals that parity and is reset
\* at every level; every arc stays at the X edge where the sweep before it
\* ended, ends at the Y of the next pass with I = 0 and J = (difference of
\* the two passes) / 2, and the next sweep starts there.
C8_Serpentine ==
    (entry = "generate_surfacing_gcode" /\ pc \in {"for_pass", "uturn"}) =>
        LET n  == Len(out)
            at == Track(out, n)
        IN  /\ direction = ParityDir(i)
            /\ at.y = Fmt3(ys[i])
            /\ at.z = Fmt3(depths[di])
            /\ pc = "for_pass" =>
                /\ at.x = EdgeX(-direction)
                /\ i > 1 =>
                    /\ IsArc(out[n]) /\ IsSweep(out[n - 1])
                    /\ out[n].X = out[n - 1].X
                    /\ out[n].Y = Fmt3(ys[i])
                    /\ out[n].I = 0
                    /\ out[n].J = Fmt3(FDiv(FSub(ys[i], ys[i - 1]), FromInt(2)))
            /\ pc = "uturn" =>
                /\ IsSweep(out[n])
                /\ out[n].X = EdgeX(direction)
                /\ at.x = EdgeX(direction)
                /\ Track(out, n - 1).x = EdgeX(-direction)
                /\ Track(out, n - 1).y = Fmt3(ys[i])

\* C8 witness: the third pass of the second depth level has been swept
C8_Witness ==
    /\ entry = "generate_surfacing_gcode" /\ pc = "uturn"
    /\ di = 2 /\ i = 3 /\ direction = 1

\* ---------------------------------------------------------------- claim C9
Retract == Fmt3(params.retract_z_mm)

\* C9: every rapid that moves in X or Y is made at the retract height; the
\* tool goes below the retract height only by the plunge G1 Z at X0 Y0;
\* every sweep and arc runs at the depth of its block; every block, and the
\* program, ends at the retract height.
C9_SafeHeights ==
    Done =>
        /\ \A k \in 1 .. Len(ret) :
            LET l      == ret[k]
                before == Track(ret, k - 1)
                b      == BlockOf(ret, k)
            IN  /\ (l.cmd = "G0" /\ (l.X # NoWord \/ l.Y # NoWord)) =>
                        before.z = Retract
                /\ (IsMotion(l) /\ l.Z # NoWord /\ l.Z < Retract) =>
                        /\ l.cmd = "G1" /\ l.X = NoWord /\ l.Y = NoWord
                        /\ before.x = 0 /\ before.y = 0 /\ before.z = Retract
                        /\ b > 0 /\ l.Z = ret[b].Z
                /\ (IsSweep(l) \/ IsArc(l)) =>
                        (b > 0 /\ before.z = ret[b].Z /\ Track(ret, k).z = ret[b].Z)
                /\ l.cmd = "(Depth)" => before.z = Retract
        /\ Track(ret, Len(ret)).z = Retract
        /\ Track(ret, FirstOf(Idx(ret, "M30"))).z = Retract

\* C9 witness: a finished program of several blocks with U-turns
C9_Witness == Done /\ Len(depths) >= 3 /\ Idx(ret, "G2") # {} /\ Retract > 0

\* --------------------------------------------------------------- claim C10
\* C10: the plunge runs at plunge_rate and every sweep and arc at feed_rate:
\* a feed move without an F word of its own finds the modal feed rate
\* already at the rate it must run at.
C10_ModalFeed ==
    Done =>
        \A k \in 1 .. Len(ret) :
            LET l        == ret[k]
                required == IF l.Z # NoWord THEN Fmt1(plunge_mm_min) ELSE Fmt1(feed_mm_min)
            IN  IsFeedMove(l) =>
                    /\ Track(ret, k).f = required
                    /\ IsSweep(l) => l.F = required

\* C10 witness: a finished program whose feed and plunge rates differ and
\* whose second block has arcs, which carry no F word
C10_Witness ==
    /\ Done
    /\ Fmt1(plunge_mm_min) # Fmt1(feed_mm_min)
    /\ Len(depths) >= 2
    /\ \E k \in Idx(ret, "G3") : ret[k].F = NoWord /\ BlockOf(ret, k) > FirstOf(Idx(ret, "(Depth)"))
====
